---- MODULE Spec2Model ----
(***************************************************************************)
(* Model of AnsibleDynamicInventory                                        *)
(* (src/Boilerplates/Dynamic_Inventory_Script/dynamic_inventory_script.py) *)
(*                                                                         *)
(* A Python dict is a function whose DOMAIN is its key set, a Python list  *)
(* is a sequence.  `inventory` is the store's self.inventory, `cache` is   *)
(* the file CACHE_FILE, `last` is the most recent call with its arguments  *)
(* and whether it raised, `nops` counts the calls made so far, `run` is    *)
(* the command-line driver's process: where main() stands, its arguments   *)
(* and what it has done, `plugin` is one call of the inventory plugin's    *)
(* parse (src/plugins/inventory/example_inventory_plugin.py).              *)
(*                                                                         *)
(* Every operation is an operator from a store to [inv, raised]: `inv` is  *)
(* the store the call leaves behind and `raised` says that a KeyError left *)
(* the call at that point, with the mutations made before it kept.         *)
(***************************************************************************)
EXTENDS Integers, Sequences, FiniteSets, TLC

VARIABLES inventory, cache, last, nops, run, plugin

vars == <<inventory, cache, last, nops, run, plugin>>

\* Number of calls in one run.
MaxOps == 3

\* Host names and group names passed to the operations.  The reserved keys
\* of the store are ordinary strings to the code and are passed as well.
Hosts == {"h1", "h2"}
Reserved == {"_meta", "all", "ungrouped"}
Groups == Reserved \cup {"g1", "g2"}

\* group=None
None == "<None>"
GroupArgs == Groups \cup {None}

\* Variable mappings passed as vars / group_vars.  The empty mapping also
\* stands for None: both are falsy and `x or {}` maps both to {}.
EmptyDict == << >>
A1 == [a |-> 1]
A2B3 == [a |-> 2, b |-> 3]

\* The argument tuples the calls are made with.
AddGroupArgs == {<<g, EmptyDict>> : g \in Groups} \cup {<<"g1", A1>>}

AddGroupVarsArgs == {<<g, A1>> : g \in {"g1", "all", "_meta"}} \cup {<<"g1", A2B3>>}

AddHostArgs ==
    {<<h, g, EmptyDict, EmptyDict>> : h \in Hosts, g \in GroupArgs}
    \cup {<<"h1", "g1", A1, EmptyDict>>, <<"h1", "g2", A2B3, A1>>}

AddHostToGroupArgs ==
    {<<h, g, EmptyDict, EmptyDict>> : h \in Hosts, g \in GroupArgs}
    \cup {<<"h1", "g1", A2B3, A1>>}

AddHostsArgs ==
    {<< << >>, "g1", EmptyDict, A1>>,
     << <<"h1", "h2">>, "g1", A1, A1>>,
     << <<"h2", "h1", "h2">>, None, EmptyDict, EmptyDict>>,
     << <<"h1">>, "all", EmptyDict, EmptyDict>>}

\* The group names the accessors are asked about.
QueryGroups == {"g1", "ungrouped", "_meta"}

AddChildGroupArgs ==
    {<<p, c, EmptyDict>> : p \in {"g1", "g2", "all", "_meta"},
                           c \in {"g1", "g2", "all", "ungrouped"}}
    \cup {<<"g1", "g2", A1>>}

----------------------------------------------------------------------------
(* Python primitives *)

\* `if group:` -- None and '' are falsy
Truthy(group) == group # None /\ group # ""

\* x in list
Contains(list, x) == \E i \in 1..Len(list) : list[i] = x

\* list.remove(x): removes the first occurrence
ListRemove(list, x) ==
    LET i == CHOOSE j \in 1..Len(list) :
                 list[j] = x /\ \A k \in 1..(j - 1) : list[k] # x
    IN  [j \in 1..(Len(list) - 1) |-> IF j < i THEN list[j] ELSE list[j + 1]]

\* if x not in list: list.append(x)
AppendIfAbsent(list, x) == IF Contains(list, x) THEN list ELSE Append(list, x)

\* dict.update(u)
DictUpdate(d, u) ==
    [k \in DOMAIN d \cup DOMAIN u |-> IF k \in DOMAIN u THEN u[k] ELSE d[k]]

\* d[k] = v
DictSet(d, k, v) == [j \in DOMAIN d \cup {k} |-> IF j = k THEN v ELSE d[j]]

\* del d[k]
DictDel(d, k) == [j \in DOMAIN d \ {k} |-> d[j]]

\* d[k][f] can be evaluated without KeyError
HasField(inv, k, f) == k \in DOMAIN inv /\ f \in DOMAIN inv[k]

\* d[k][f] = v
SetField(inv, k, f, v) == DictSet(inv, k, DictSet(inv[k], f, v))

Ok(inv) == [inv |-> inv, raised |-> FALSE]
KeyError(inv) == [inv |-> inv, raised |-> TRUE]

----------------------------------------------------------------------------
(* AnsibleDynamicInventory *)

\* __init__
NewInventory ==
    [_meta |-> [hostvars |-> EmptyDict],
     all |-> [children |-> <<"ungrouped">>],
     ungrouped |-> [hosts |-> << >>, vars |-> EmptyDict, children |-> << >>]]

NewGroup == [hosts |-> << >>, vars |-> EmptyDict, children |-> << >>]

\* add_group, lines 43-46 (what add_group does when group_vars is falsy)
add_group_record(inv, group) ==
    IF ~HasField(inv, "all", "children") THEN KeyError(inv)
    ELSE LET i1 == SetField(inv, "all", "children",
                            AppendIfAbsent(inv["all"]["children"], group))
             i2 == IF group \notin DOMAIN i1
                   THEN DictSet(i1, group, NewGroup) ELSE i1
         IN  Ok(i2)

add_group_vars(inv, group, group_vars) ==
    LET r == add_group_record(inv, group)
    IN  IF r.raised THEN r
        ELSE LET i1 == IF "vars" \notin DOMAIN r.inv[group]
                       THEN SetField(r.inv, group, "vars", EmptyDict)
                       ELSE r.inv
             IN  Ok(SetField(i1, group, "vars",
                             DictUpdate(i1[group]["vars"], group_vars)))

add_group(inv, group, group_vars) ==
    LET r == add_group_record(inv, group)
    IN  IF r.raised THEN r
        ELSE IF group_vars # EmptyDict
             THEN add_group_vars(r.inv, group, group_vars)
             ELSE r

\* self.inventory['_meta']['hostvars'].setdefault(host, {}).update(vars)
set_hostvars(inv, host, hvars) ==
    IF ~HasField(inv, "_meta", "hostvars") THEN KeyError(inv)
    ELSE LET hv == inv["_meta"]["hostvars"]
             old == IF host \in DOMAIN hv THEN hv[host] ELSE EmptyDict
         IN  Ok(SetField(inv, "_meta", "hostvars",
                         DictSet(hv, host, DictUpdate(old, hvars))))

\* if host not in self.inventory[g]['hosts']: ...append(host)
append_host(inv, g, host) ==
    IF ~HasField(inv, g, "hosts") THEN KeyError(inv)
    ELSE Ok(SetField(inv, g, "hosts", AppendIfAbsent(inv[g]["hosts"], host)))

\* add_host with the cleanup of add_host_to_group: the host is taken out
\* of ungrouped.hosts when a group is named.
add_host_moving(inv, host, group, hvars, group_vars) ==
    LET r1 == set_hostvars(inv, host, hvars)
    IN  IF r1.raised THEN r1
        ELSE IF Truthy(group)
             THEN LET r2 == add_group(r1.inv, group, group_vars)
                  IN  IF r2.raised THEN r2
                      ELSE LET i3 == IF Contains(r2.inv["ungrouped"]["hosts"], host)
                                     THEN SetField(r2.inv, "ungrouped", "hosts",
                                              ListRemove(r2.inv["ungrouped"]["hosts"], host))
                                     ELSE r2.inv
                           IN  append_host(i3, group, host)
             ELSE append_host(r1.inv, "ungrouped", host)

add_host(inv, host, group, hvars, group_vars) ==
    LET r1 == set_hostvars(inv, host, hvars)
    IN  IF r1.raised THEN r1
        ELSE IF Truthy(group)
             THEN LET r2 == add_group(r1.inv, group, group_vars)
                  IN  IF r2.raised THEN r2 ELSE append_host(r2.inv, group, host)
             ELSE append_host(r1.inv, "ungrouped", host)

RECURSIVE add_hosts_loop(_, _, _, _)
add_hosts_loop(inv, hosts, group, hvars) ==
    IF hosts = << >> THEN Ok(inv)
    ELSE LET r == add_host(inv, Head(hosts), group, hvars, EmptyDict)
         IN  IF r.raised THEN r
             ELSE add_hosts_loop(r.inv, Tail(hosts), group, hvars)

add_hosts(inv, hosts, group, hvars, group_vars) ==
    LET r == IF Truthy(group) THEN add_group(inv, group, group_vars) ELSE Ok(inv)
    IN  IF r.raised THEN r ELSE add_hosts_loop(r.inv, hosts, group, hvars)

add_host_to_group(inv, host, group, hvars, group_vars) ==
    LET r1 == set_hostvars(inv, host, hvars)
    IN  IF r1.raised THEN r1
        ELSE IF Truthy(group)
             THEN LET r2 == add_group(r1.inv, group, group_vars)
                  IN  IF r2.raised THEN r2
                      ELSE IF ~HasField(r2.inv, "ungrouped", "hosts")
                           THEN KeyError(r2.inv)
                           ELSE LET ug == r2.inv["ungrouped"]["hosts"]
                                    i3 == IF Contains(ug, host)
                                          THEN SetField(r2.inv, "ungrouped", "hosts",
                                                        ListRemove(ug, host))
                                          ELSE r2.inv
                                IN  append_host(i3, group, host)
             ELSE append_host(r1.inv, "ungrouped", host)

add_child_group(inv, parent_group, child_group, group_vars) ==
    LET r1 == add_group(inv, parent_group, EmptyDict)
    IN  IF r1.raised THEN r1
        ELSE LET r2 == add_group(r1.inv, child_group, group_vars)
             IN  IF r2.raised THEN r2
                 ELSE LET i3 == IF "children" \notin DOMAIN r2.inv[parent_group]
                                THEN SetField(r2.inv, parent_group, "children", << >>)
                                ELSE r2.inv
                      IN  Ok(SetField(i3, parent_group, "children",
                                      AppendIfAbsent(i3[parent_group]["children"],
                                                     child_group)))

\* for g, g_data in self.inventory.items(): remove x from g_data[field]
strip_from_all(inv, field, x, skip) ==
    [g \in DOMAIN inv |->
        IF g \notin skip /\ field \in DOMAIN inv[g] /\ Contains(inv[g][field], x)
        THEN DictSet(inv[g], field, ListRemove(inv[g][field], x))
        ELSE inv[g]]

remove_group(inv, group) ==
    LET i1 == IF group \in DOMAIN inv THEN DictDel(inv, group) ELSE inv
    IN  IF ~HasField(i1, "all", "children") THEN KeyError(i1)
        ELSE LET ch == i1["all"]["children"]
                 i2 == IF Contains(ch, group)
                       THEN SetField(i1, "all", "children", ListRemove(ch, group))
                       ELSE i1
             IN  Ok(strip_from_all(i2, "children", group, {}))

remove_host(inv, host) ==
    IF ~HasField(inv, "_meta", "hostvars") THEN KeyError(inv)
    ELSE LET hv == inv["_meta"]["hostvars"]
             i1 == IF host \in DOMAIN hv
                   THEN SetField(inv, "_meta", "hostvars", DictDel(hv, host))
                   ELSE inv
         IN  Ok(strip_from_all(i1, "hosts", host, {"_meta"}))

\* Query accessors.  A result is [raised, known, value]: `known` is FALSE
\* for the None that get_host / get_group return for an unknown name.
Result(known, value) == [raised |-> FALSE, known |-> known, value |-> value]
Raises == [raised |-> TRUE, known |-> FALSE, value |-> << >>]

get_hosts(inv) ==
    IF ~HasField(inv, "_meta", "hostvars") THEN Raises
    ELSE Result(TRUE, inv["_meta"]["hostvars"])

get_groups(inv) == Result(TRUE, [k \in DOMAIN inv \ {"_meta"} |-> inv[k]])

get_hosts_in_group(inv, group) ==
    IF group \in DOMAIN inv
    THEN Result(TRUE, IF "hosts" \in DOMAIN inv[group]
                      THEN inv[group]["hosts"] ELSE << >>)
    ELSE Result(TRUE, << >>)

get_host(inv, host) ==
    IF ~HasField(inv, "_meta", "hostvars") THEN Raises
    ELSE IF host \in DOMAIN inv["_meta"]["hostvars"]
         THEN Result(TRUE, inv["_meta"]["hostvars"][host])
         ELSE Result(FALSE, << >>)

get_child_groups(inv, group) ==
    IF group \in DOMAIN inv
    THEN Result(TRUE, IF "children" \in DOMAIN inv[group]
                      THEN inv[group]["children"] ELSE << >>)
    ELSE Result(TRUE, << >>)

\* get_group with `return {}` for an unknown group instead of None
get_group_empty_default(inv, group) ==
    IF group \in DOMAIN inv
    THEN Result(TRUE, IF "vars" \in DOMAIN inv[group]
                      THEN inv[group]["vars"] ELSE EmptyDict)
    ELSE Result(TRUE, EmptyDict)

get_group(inv, group) ==
    IF group \in DOMAIN inv
    THEN Result(TRUE, IF "vars" \in DOMAIN inv[group]
                      THEN inv[group]["vars"] ELSE EmptyDict)
    ELSE Result(FALSE, << >>)

\* The store an accessor leaves behind.  The accessors read with d[k],
\* `k in d` and d.get(k, default); none of them inserts the default.
\* hostvars.setdefault(host, {}) in place of hostvars.get(host)
after_get_host_setdefault(inv, host) ==
    IF HasField(inv, "_meta", "hostvars") /\ host \notin DOMAIN inv["_meta"]["hostvars"]
    THEN SetField(inv, "_meta", "hostvars",
                  DictSet(inv["_meta"]["hostvars"], host, EmptyDict))
    ELSE inv

after_get_host(inv, host) == inv
after_get_hosts(inv) == inv
after_get_groups(inv) == inv
after_get_group(inv, group) == inv
after_get_child_groups(inv, group) == inv
after_get_hosts_in_group(inv, group) == inv

----------------------------------------------------------------------------
(* Snapshot file: json.dump / json.load *)

\* A JSON document is a tree of tagged nodes; json.dump of the store maps
\* dicts to objects, lists to arrays, str to strings and int to numbers.
JStr(s) == [t |-> "str", v |-> s]
\* a value of a vars mapping: a number or a string, written as it is
JVal(x) == [t |-> "val", v |-> x]
JArr(a) == [t |-> "arr", v |-> a]
JObj(m) == [t |-> "obj", v |-> m]

\* The names written from a set of the list: their order is lost.
dump_names_unordered(list) ==
    JArr([i \in 1..Len(list) |-> JStr(list[Len(list) + 1 - i])])

dump_names(list) == JArr([i \in 1..Len(list) |-> JStr(list[i])])
dump_vars(d) == JObj([k \in DOMAIN d |-> JVal(d[k])])
dump_field(f, x) ==
    IF f = "hostvars" THEN JObj([h \in DOMAIN x |-> dump_vars(x[h])])
    ELSE IF f = "vars" THEN dump_vars(x)
    ELSE dump_names(x)
dump_record(rec) == JObj([f \in DOMAIN rec |-> dump_field(f, rec[f])])
json_dump(inv) == JObj([k \in DOMAIN inv |-> dump_record(inv[k])])

\* json null, what json.dumps writes for None
JNull == [t |-> "null", v |-> None]

RECURSIVE json_load(_)
json_load(node) ==
    IF node.t \in {"obj", "arr"}
    THEN [k \in DOMAIN node.v |-> json_load(node.v[k])]
    ELSE node.v

\* The file: absent, or a document; `truncated` says that only a strict
\* prefix of the document's text is on disk (the writer died inside
\* json.dump).  A strict prefix of the text of a JSON object never parses.
\* `dir` says that the directory CACHE_DIR exists.
NoFile == [exists |-> FALSE, truncated |-> FALSE, doc |-> JObj(EmptyDict),
           dir |-> FALSE]
Parses(file) == file.exists /\ ~file.truncated

\* The except clause of load_cache left out: the JSONDecodeError reaches
\* the caller.
load_cache_uncaught(file) ==
    IF file.exists
    THEN IF file.truncated THEN KeyError(NewInventory) ELSE Ok(json_load(file.doc))
    ELSE Ok(NewInventory)

\* load_cache that checks the reserved entries of what it has parsed.
load_cache_validating(file) ==
    IF file.exists /\ ~file.truncated
       /\ Reserved \subseteq DOMAIN json_load(file.doc)
    THEN Ok(json_load(file.doc))
    ELSE Ok(NewInventory)

load_cache(file) ==
    IF file.exists
    THEN IF file.truncated THEN Ok(NewInventory) ELSE Ok(json_load(file.doc))
    ELSE Ok(NewInventory)

\* os.makedirs(CACHE_DIR, exist_ok=True), then the file is written anew
save_cache(inv) ==
    [exists |-> TRUE, truncated |-> FALSE, doc |-> json_dump(inv), dir |-> TRUE]

\* os.remove takes the file away and leaves the directory
delete_cache(file) ==
    IF file.exists THEN [NoFile EXCEPT !.dir = file.dir] ELSE file

----------------------------------------------------------------------------
(* The calls *)

\* `last`: the call made last.  host is the host argument (the hosts list
\* of add_hosts), group the group or parent_group argument, child the
\* child_group argument, hvars / gvars the vars / group_vars arguments.
NoCall == [op |-> "new", host |-> None, group |-> None, child |-> None,
           hvars |-> EmptyDict, gvars |-> EmptyDict, raised |-> FALSE]

Call(op, host, group, child, hvars, gvars, raised) ==
    [op |-> op, host |-> host, group |-> group, child |-> child,
     hvars |-> hvars, gvars |-> gvars, raised |-> raised]

\* The command line of one driver run, as parse_args returns it.  --export
\* is <<base, extension>>, what os.path.splitext makes of the path.
NoExport == << >>
NoArgs == [list |-> FALSE, host |-> None, group |-> None, output |-> None,
           export |-> NoExport, cache |-> None]

\* nothing printed or exported; path << >> is the standard output
NoOutput == [path |-> << >>, format |-> None, value |-> Raises]

\* main(): `pc` is the statement it stands at, `call` the statement of
\* generate_inventory it stands at, `n` counts the runs, `trace` lists what
\* this run has done to the store and to the cache file, `out` is what it
\* has printed or exported.  `kept` is history: the inventory that the
\* first --cache on run completed since the last --cache off run has put
\* out from, NoneKept when there is no such run.
NoneKept == << >>
NoRun == [pc |-> "none", call |-> 0, args |-> NoArgs, n |-> 0,
          trace |-> << >>, out |-> NoOutput, kept |-> NoneKept]

\* The local `name` of parse before its first assignment
NoName == [value |-> None, record |-> 0]

\* InventoryModule.parse: `data` is fetched_data, `i` the record the loop
\* stands at, `name` the local `name` with the record it was taken from,
\* `groups`, `hosts` and `variables` are what add_group, add_host and
\* set_variable have put into Ansible's inventory, `warnings` the records
\* warned about, `steps` the compose, groups and keyed_groups calls made.
NoPlugin == [pc |-> "none", data |-> << >>, i |-> 0, name |-> NoName,
             groups |-> {}, hosts |-> {}, variables |-> {},
             warnings |-> << >>, steps |-> << >>]

Init ==
    /\ inventory = NewInventory
    /\ cache = NoFile
    /\ last = NoCall
    /\ nops = 0
    /\ run = NoRun
    /\ plugin = NoPlugin

AddGroup ==
    \E a \in AddGroupArgs :
        LET r == add_group(inventory, a[1], a[2])
        IN  /\ nops < MaxOps
            /\ inventory' = r.inv
            /\ last' = Call("add_group", None, a[1], None, EmptyDict, a[2], r.raised)
            /\ nops' = nops + 1
            /\ UNCHANGED <<cache, run, plugin>>

AddGroupVars ==
    \E a \in AddGroupVarsArgs :
        LET r == add_group_vars(inventory, a[1], a[2])
        IN  /\ nops < MaxOps
            /\ inventory' = r.inv
            /\ last' = Call("add_group_vars", None, a[1], None, EmptyDict, a[2], r.raised)
            /\ nops' = nops + 1
            /\ UNCHANGED <<cache, run, plugin>>

AddHost ==
    \E a \in AddHostArgs :
        LET r == add_host(inventory, a[1], a[2], a[3], a[4])
        IN  /\ nops < MaxOps
            /\ inventory' = r.inv
            /\ last' = Call("add_host", a[1], a[2], None, a[3], a[4], r.raised)
            /\ nops' = nops + 1
            /\ UNCHANGED <<cache, run, plugin>>

AddHosts ==
    \E a \in AddHostsArgs :
        LET r == add_hosts(inventory, a[1], a[2], a[3], a[4])
        IN  /\ nops < MaxOps
            /\ inventory' = r.inv
            /\ last' = Call("add_hosts", a[1], a[2], None, a[3], a[4], r.raised)
            /\ nops' = nops + 1
            /\ UNCHANGED <<cache, run, plugin>>

AddHostToGroup ==
    \E a \in AddHostToGroupArgs :
        LET r == add_host_to_group(inventory, a[1], a[2], a[3], a[4])
        IN  /\ nops < MaxOps
            /\ inventory' = r.inv
            /\ last' = Call("add_host_to_group", a[1], a[2], None, a[3], a[4], r.raised)
            /\ nops' = nops + 1
            /\ UNCHANGED <<cache, run, plugin>>

AddChildGroup ==
    \E a \in AddChildGroupArgs :
        LET r == add_child_group(inventory, a[1], a[2], a[3])
        IN  /\ nops < MaxOps
            /\ inventory' = r.inv
            /\ last' = Call("add_child_group", None, a[1], a[2], EmptyDict, a[3], r.raised)
            /\ nops' = nops + 1
            /\ UNCHANGED <<cache, run, plugin>>

RemoveGroup ==
    \E g \in Groups :
        LET r == remove_group(inventory, g)
        IN  /\ nops < MaxOps
            /\ inventory' = r.inv
            /\ last' = Call("remove_group", None, g, None, EmptyDict, EmptyDict, r.raised)
            /\ nops' = nops + 1
            /\ UNCHANGED <<cache, run, plugin>>

RemoveHost ==
    \E h \in Hosts :
        LET r == remove_host(inventory, h)
        IN  /\ nops < MaxOps
            /\ inventory' = r.inv
            /\ last' = Call("remove_host", h, None, None, EmptyDict, EmptyDict, r.raised)
            /\ nops' = nops + 1
            /\ UNCHANGED <<cache, run, plugin>>

FileCall(op) == Call(op, None, None, None, EmptyDict, EmptyDict, FALSE)

SaveCache ==
    /\ nops < MaxOps
    /\ cache' = save_cache(inventory)
    /\ last' = FileCall("save_cache")
    /\ nops' = nops + 1
    /\ UNCHANGED <<inventory, run, plugin>>

\* The process dies inside json.dump (line 285): open(..., 'w') has emptied
\* the file and only part of the text reaches it.
SaveCacheInterrupted ==
    /\ nops < MaxOps
    /\ cache' = [save_cache(inventory) EXCEPT !.truncated = TRUE]
    /\ last' = FileCall("save_cache_interrupted")
    /\ nops' = nops + 1
    /\ UNCHANGED <<inventory, run, plugin>>

\* inventory = AnsibleDynamicInventory.load_cache()
LoadCache ==
    /\ nops < MaxOps
    /\ LET r == load_cache(cache)
       IN  /\ inventory' = IF r.raised THEN inventory ELSE r.inv
           /\ last' = [FileCall("load_cache") EXCEPT !.raised = r.raised]
    /\ nops' = nops + 1
    /\ UNCHANGED <<cache, run, plugin>>

DeleteCache ==
    /\ nops < MaxOps
    /\ cache' = delete_cache(cache)
    /\ last' = FileCall("delete_cache")
    /\ nops' = nops + 1
    /\ UNCHANGED <<inventory, run, plugin>>

Next ==
    \/ AddGroup
    \/ AddGroupVars
    \/ AddHost
    \/ AddHosts
    \/ AddHostToGroup
    \/ AddChildGroup
    \/ RemoveGroup
    \/ RemoveHost
    \/ SaveCache
    \/ SaveCacheInterrupted
    \/ LoadCache
    \/ DeleteCache

Spec == Init /\ [][Next]_vars

\* The query accessors
GetHosts ==
    LET q == get_hosts(inventory)
    IN  /\ nops < MaxOps
        /\ inventory' = after_get_hosts(inventory)
        /\ last' = Call("get_hosts", None, None, None, EmptyDict, EmptyDict, q.raised)
        /\ nops' = nops + 1
        /\ UNCHANGED <<cache, run, plugin>>

GetGroups ==
    LET q == get_groups(inventory)
    IN  /\ nops < MaxOps
        /\ inventory' = after_get_groups(inventory)
        /\ last' = Call("get_groups", None, None, None, EmptyDict, EmptyDict, q.raised)
        /\ nops' = nops + 1
        /\ UNCHANGED <<cache, run, plugin>>

GetChildGroups ==
    \E g \in QueryGroups :
        LET q == get_child_groups(inventory, g)
        IN  /\ nops < MaxOps
            /\ inventory' = after_get_child_groups(inventory, g)
            /\ last' = Call("get_child_groups", None, g, None, EmptyDict, EmptyDict, q.raised)
            /\ nops' = nops + 1
            /\ UNCHANGED <<cache, run, plugin>>

GetHostsInGroup ==
    \E g \in QueryGroups :
        LET q == get_hosts_in_group(inventory, g)
        IN  /\ nops < MaxOps
            /\ inventory' = after_get_hosts_in_group(inventory, g)
            /\ last' = Call("get_hosts_in_group", None, g, None, EmptyDict, EmptyDict, q.raised)
            /\ nops' = nops + 1
            /\ UNCHANGED <<cache, run, plugin>>

GetHost ==
    \E h \in Hosts :
        LET q == get_host(inventory, h)
        IN  /\ nops < MaxOps
            /\ inventory' = after_get_host(inventory, h)
            /\ last' = Call("get_host", h, None, None, EmptyDict, EmptyDict, q.raised)
            /\ nops' = nops + 1
            /\ UNCHANGED <<cache, run, plugin>>

GetGroup ==
    \E g \in QueryGroups :
        LET q == get_group(inventory, g)
        IN  /\ nops < MaxOps
            /\ inventory' = after_get_group(inventory, g)
            /\ last' = Call("get_group", None, g, None, EmptyDict, EmptyDict, q.raised)
            /\ nops' = nops + 1
            /\ UNCHANGED <<cache, run, plugin>>

NextQuery ==
    \/ Next
    \/ GetHosts
    \/ GetGroups
    \/ GetChildGroups
    \/ GetHostsInGroup
    \/ GetHost
    \/ GetGroup

\* The store with its accessors called between the mutations
SpecQuery == Init /\ [][NextQuery]_vars

----------------------------------------------------------------------------
(* The command-line driver: main() *)

\* Number of driver runs, one after the other, over the same cache file.
MaxRuns == 2

CliArgs ==
    [list : BOOLEAN, host : {None, "", "host1", "host9"},
     group : {None, "group1"}, output : {None, "json", "yaml"},
     export : {NoExport, <<"inv", ".txt">>, <<".cache/inventory_cache", "">>},
     cache : {None, "on", "off"}]

\* CACHE_FILE, split as os.path.splitext splits it
CachePath == <<".cache/inventory_cache", ".json">>

\* main's local `inventory` before it is assigned
Unbound == << >>

HostVars(ip, user) ==
    [ansible_host |-> ip, ansible_user |-> user,
     ansible_ssh_private_key_file |-> "/path/to/private/key"]

\* The statement `call` of generate_inventory, made on the store the
\* statements before it have left.
GenerateCalls == 5

generate_inventory(inv, call) ==
    CASE call = 1 ->
           add_hosts(inv, <<"host1">>, "group1",
                     HostVars("192.168.1.10", "user1"),
                     [group_var1 |-> "value1", group_var2 |-> "value2"])
      [] call = 2 ->
           add_hosts(inv, <<"host2">>, "group2",
                     HostVars("192.168.1.11", "user2"), EmptyDict)
      [] call = 3 ->
           add_host(inv, "host3", None,
                    HostVars("192.168.1.12", "user3"), EmptyDict)
      [] call = 4 ->
           add_host_to_group(inv, "host1", "group2", EmptyDict, EmptyDict)
      [] call = 5 ->
           add_child_group(inv, "group1", "child_group1",
                           [var1 |-> "value1", var2 |-> "value2"])

\* The selector test with --cache counted among the selectors.
selector_missing_unless_cache(args) ==
    ~(args.list \/ Truthy(args.host) \/ Truthy(args.group) \/ Truthy(args.cache))

\* not (args.list or args.host or args.group)
selector_missing(args) ==
    ~(args.list \/ Truthy(args.host) \/ Truthy(args.group))

\* args.cache.lower() if args.cache else None
cache_option(args) == IF Truthy(args.cache) THEN args.cache ELSE None

InitDriver ==
    /\ inventory = Unbound
    /\ cache = NoFile
    /\ last = NoCall
    /\ nops = 0
    /\ run = [NoRun EXCEPT !.pc = "parse_args", !.n = 1]
    /\ plugin = NoPlugin

\* args = parser.parse_args()
ParseArgs ==
    /\ run.pc = "parse_args"
    /\ \E args \in CliArgs :
           run' = [run EXCEPT !.pc = "check", !.args = args]
    /\ UNCHANGED <<inventory, cache, last, nops, plugin>>

\* parser.error(...) prints the usage and exits with status 2.
UsageCheck ==
    /\ run.pc = "check"
    /\ run' = [run EXCEPT !.pc = IF selector_missing(run.args)
                                 THEN "usage_error" ELSE "cache"]
    /\ UNCHANGED <<inventory, cache, last, nops, plugin>>

\* cache_option == 'off', up to the call of generate_inventory
CacheOff ==
    /\ run.pc = "cache"
    /\ cache_option(run.args) = "off"
    /\ cache' = delete_cache(cache)
    /\ inventory' = NewInventory
    /\ run' = [run EXCEPT
           !.pc = "generate_inventory", !.call = 1, !.kept = NoneKept,
           !.trace = run.trace
                     \o (IF cache.exists THEN <<"delete">> ELSE << >>)
                     \o <<"new", "generate_inventory">>]
    /\ UNCHANGED <<last, nops, plugin>>

\* cache_option == 'on', up to the call of generate_inventory.  A file that
\* holds null loads as None, and None['_meta'] in get_hosts raises
\* TypeError.
CacheOn ==
    /\ run.pc = "cache"
    /\ cache_option(run.args) = "on"
    /\ LET l == load_cache(cache)
           q == IF Parses(cache) /\ cache.doc.t = "null"
                THEN Raises
                ELSE get_hosts(l.inv)
           loaded == run.trace \o <<"load_cache">>
                     \o (IF cache.exists THEN <<"read">> ELSE << >>)
       IN  IF l.raised
           THEN /\ run' = [run EXCEPT !.pc = "crashed", !.trace = loaded]
                /\ UNCHANGED inventory
           ELSE /\ inventory' = l.inv
                /\ run' = IF q.raised
                          THEN [run EXCEPT !.pc = "crashed", !.trace = loaded]
                          ELSE IF q.value # EmptyDict
                          THEN [run EXCEPT !.pc = "output", !.trace = loaded]
                          ELSE [run EXCEPT
                                    !.pc = "generate_inventory", !.call = 1,
                                    !.trace = loaded \o <<"generate_inventory">>]
    /\ UNCHANGED <<cache, last, nops, plugin>>

\* no --cache, up to the call of generate_inventory
NoCache ==
    /\ run.pc = "cache"
    /\ cache_option(run.args) = None
    /\ inventory' = NewInventory
    /\ run' = [run EXCEPT
           !.pc = "generate_inventory", !.call = 1,
           !.trace = run.trace \o <<"new", "generate_inventory">>]
    /\ UNCHANGED <<cache, last, nops, plugin>>

\* One statement of generate_inventory; after the last one main goes on
\* with save_cache under --cache on and with the output otherwise.
GenerateInventory ==
    /\ run.pc = "generate_inventory"
    /\ LET r == generate_inventory(inventory, run.call)
       IN  /\ inventory' = r.inv
           /\ run' = IF r.raised
                     THEN [run EXCEPT !.pc = "crashed"]
                     ELSE IF run.call < GenerateCalls
                     THEN [run EXCEPT !.call = run.call + 1]
                     ELSE [run EXCEPT !.call = 0,
                               !.pc = IF cache_option(run.args) = "on"
                                      THEN "save_cache" ELSE "output"]
    /\ UNCHANGED <<cache, last, nops, plugin>>

\* AnsibleDynamicInventory.save_cache(inventory), line 364
SaveGenerated ==
    /\ run.pc = "save_cache"
    /\ cache' = save_cache(inventory)
    /\ run' = [run EXCEPT !.pc = "output", !.trace = run.trace \o <<"write">>]
    /\ UNCHANGED <<inventory, last, nops, plugin>>

\* The value main prints: `output` stays unassigned when no selector is
\* truthy and the next statement raises UnboundLocalError.
output_value(inv, args) ==
    IF args.list THEN Result(TRUE, inv)
    ELSE IF Truthy(args.host) THEN get_host(inv, args.host)
    ELSE IF Truthy(args.group) THEN get_group(inv, args.group)
    ELSE Raises

\* file_base + file_extension of --export
export_path(args) ==
    IF args.export # NoExport
    THEN <<args.export[1], IF args.output = "yaml" THEN ".yaml" ELSE ".json">>
    ELSE << >>

output_format(args) ==
    IF args.output = "json" THEN "json indent=4"
    ELSE IF args.output = "yaml" THEN "yaml"
    ELSE "json"

\* json.dumps(output): the document the output is written as
dump_output(inv, args) ==
    LET v == output_value(inv, args)
    IN  IF args.list THEN json_dump(inv)
        ELSE IF v.known THEN dump_vars(v.value)
        ELSE JNull

\* open(file_path, 'w') fails when the directory of the path is missing;
\* the directory of "inv.json" is the working directory.
export_fails(file, args) ==
    /\ args.export # NoExport
    /\ args.export[1] = CachePath[1]
    /\ ~file.dir

\* with open(file_path, 'w') as file: file.write(output_str)
export_file(file, inv, args) ==
    IF export_path(args) = CachePath
    THEN [exists |-> TRUE, truncated |-> FALSE, doc |-> dump_output(inv, args),
          dir |-> TRUE]
    ELSE file

Output ==
    /\ run.pc = "output"
    /\ LET v == output_value(inventory, run.args)
           failed == v.raised \/ export_fails(cache, run.args)
       IN  /\ inventory' = IF ~run.args.list /\ Truthy(run.args.host)
                           THEN after_get_host(inventory, run.args.host)
                           ELSE IF ~run.args.list /\ Truthy(run.args.group)
                           THEN after_get_group(inventory, run.args.group)
                           ELSE inventory
           /\ cache' = IF failed THEN cache
                       ELSE export_file(cache, inventory, run.args)
           /\ run' = IF failed
                     THEN [run EXCEPT !.pc = "crashed"]
                     ELSE [run EXCEPT !.pc = "done",
                               !.out = [path |-> export_path(run.args),
                                        format |-> output_format(run.args),
                                        value |-> v],
                               !.kept = IF cache_option(run.args) = "on"
                                           /\ run.kept = NoneKept
                                        THEN inventory ELSE run.kept]
    /\ UNCHANGED <<last, nops, plugin>>

\* The process has ended; the script is run again.
NextRun ==
    /\ run.pc \in {"done", "usage_error", "crashed"}
    /\ run.n < MaxRuns
    /\ inventory' = Unbound
    /\ run' = [NoRun EXCEPT !.pc = "parse_args", !.n = run.n + 1,
                          !.kept = run.kept]
    /\ UNCHANGED <<cache, last, nops, plugin>>

NextDriver ==
    \/ ParseArgs
    \/ UsageCheck
    \/ CacheOff
    \/ CacheOn
    \/ NoCache
    \/ GenerateInventory
    \/ SaveGenerated
    \/ Output
    \/ NextRun

SpecDriver == InitDriver /\ [][NextDriver]_vars

----------------------------------------------------------------------------
(* The inventory plugin: the loop of InventoryModule.parse *)

\* Number of records in fetched_data.
MaxDevices == 2

Sites == {"ny", "n y"}
NodeNames == {"n1", "n2"}

\* A fetched record: a mapping that may lack 'site', 'node_name' or both.
Devices ==
    {[vendor |-> "Cisco"]}
    \cup {[vendor |-> "Cisco", site |-> s] : s \in Sites}
    \cup {[vendor |-> "Cisco", node_name |-> n] : n \in NodeNames}
    \cup {[vendor |-> "Cisco", site |-> s, node_name |-> n] :
              s \in Sites, n \in NodeNames}

FetchedData == UNION {[1..n -> Devices] : n \in 0..MaxDevices}

\* to_safe_group_name(site, replacer="_", force=True): every character
\* that a group name may not hold becomes "_"
to_safe_group_name(site) == IF site = "n y" THEN "n_y" ELSE site

\* The try block of one iteration: [raised, name, device, groups, hosts,
\* variables] after it.  device["site"] raises before `name` is assigned,
\* device.pop("node_name") raises before add_group is reached.
try_block(p, device) ==
    IF "site" \notin DOMAIN device \/ "node_name" \notin DOMAIN device
    THEN [raised |-> TRUE, name |-> p.name, device |-> device,
          groups |-> p.groups, hosts |-> p.hosts, variables |-> p.variables]
    ELSE LET group == to_safe_group_name(device["site"])
             name == device["node_name"]
             rest == DictDel(device, "node_name")
         IN  [raised |-> FALSE,
              name |-> [value |-> name, record |-> p.i],
              device |-> rest,
              groups |-> p.groups \cup {group},
              hosts |-> p.hosts \cup {<<name, group>>},
              variables |-> p.variables
                            \cup {<<name, k, rest[k]>> : k \in DOMAIN rest}]

\* _set_composite_vars, _add_host_to_composed_groups and
\* _add_host_to_keyed_groups, each called with this device and `name`
compose_steps(i, device, name) ==
    [k \in 1..3 |->
        [step |-> <<"compose", "groups", "keyed_groups">>[k],
         record |-> i, device |-> device,
         host |-> name.value, taken_from |-> name.record]]

InitPlugin ==
    /\ inventory = NewInventory
    /\ cache = NoFile
    /\ last = NoCall
    /\ nops = 0
    /\ run = NoRun
    /\ \E data \in FetchedData :
           plugin = [NoPlugin EXCEPT !.pc = "loop", !.data = data, !.i = 1]

\* One iteration of `for device in fetched_data`.  Reading the unassigned
\* `name` after the except clause raises UnboundLocalError, which leaves
\* parse.
ParseDevice ==
    /\ plugin.pc = "loop"
    /\ plugin.i <= Len(plugin.data)
    /\ LET t == try_block(plugin, plugin.data[plugin.i])
           warned == IF t.raised
                     THEN Append(plugin.warnings, plugin.i)
                     ELSE plugin.warnings
       IN  plugin' =
             IF t.name = NoName
             THEN [plugin EXCEPT !.pc = "failed", !.warnings = warned]
             ELSE [plugin EXCEPT
                      !.i = plugin.i + 1,
                      !.name = t.name,
                      !.groups = t.groups,
                      !.hosts = t.hosts,
                      !.variables = t.variables,
                      !.warnings = warned,
                      !.steps = plugin.steps
                                \o compose_steps(plugin.i, t.device, t.name)]
    /\ UNCHANGED <<inventory, cache, last, nops, run>>

\* fetched_data is exhausted
EndLoop ==
    /\ plugin.pc = "loop"
    /\ plugin.i > Len(plugin.data)
    /\ plugin' = [plugin EXCEPT !.pc = "filters"]
    /\ UNCHANGED <<inventory, cache, last, nops, run>>

NextPlugin ==
    \/ ParseDevice
    \/ EndLoop

SpecPlugin == InitPlugin /\ [][NextPlugin]_vars

----------------------------------------------------------------------------
(* Properties *)

AddOps == {"add_group", "add_host", "add_hosts", "add_host_to_group",
           "add_child_group", "add_group_vars"}

\* the entries of inv[g][field], none when the record or the field is missing
Entries(inv, g, field) ==
    IF HasField(inv, g, field)
    THEN {inv[g][field][i] : i \in 1..Len(inv[g][field])}
    ELSE {}

Occurrences(list, x) == Cardinality({i \in 1..Len(list) : list[i] = x})

FullRecord(inv, g) ==
    g \in DOMAIN inv /\ {"hosts", "vars", "children"} \subseteq DOMAIN inv[g]

\* Group names that appear in the store: the groups that carry a hosts
\* list and the entries of every children list, all.children included.
AppearingGroups(inv) ==
    {g \in DOMAIN inv : "hosts" \in DOMAIN inv[g]}
    \cup UNION {Entries(inv, g, "children") : g \in DOMAIN inv}

\* C1: every group name that appears anywhere (as a host's group, as a
\* child, or as a created group) is listed in all.children and has a
\* top-level record with hosts, vars and children all present.
C1_EveryGroupRegistered ==
    \A g \in AppearingGroups(inventory) :
        /\ g \in Entries(inventory, "all", "children")
        /\ FullRecord(inventory, g)

\* C2: the lazy-creating operations (add_group, add_host, add_hosts,
\* add_host_to_group, add_child_group, add_group_vars) never raise,
\* whatever names they are given and whatever was removed before.
C2_AddOpsNeverFail == last.op \in AddOps => ~last.raised

\* C3: immediately after add_host_to_group(h, g) with a named group g the
\* host h is in g's hosts list and is absent from ungrouped.hosts.
C3_MovedOutOfUngrouped ==
    (last.op = "add_host_to_group" /\ Truthy(last.group)) =>
        /\ last.host \in Entries(inventory, last.group, "hosts")
        /\ last.host \notin Entries(inventory, "ungrouped", "hosts")

\* C4: immediately after remove_host(h), get_host(h) returns the absent
\* marker and h occurs in no group's hosts list, ungrouped included.
C4_RemoveHostCascades ==
    last.op = "remove_host" =>
        /\ get_host(inventory, last.host) = Result(FALSE, << >>)
        /\ \A g \in DOMAIN inventory :
               last.host \notin Entries(inventory, g, "hosts")

\* C5: immediately after remove_group(G), G is not a key of get_groups(),
\* is not in all.children and is in no remaining group's children list.
C5_RemoveGroupCascades ==
    last.op = "remove_group" =>
        /\ last.group \notin DOMAIN get_groups(inventory).value
        /\ \A g \in DOMAIN inventory :
               last.group \notin Entries(inventory, g, "children")

\* C6: after add_host(h, g) the host h appears exactly once in
\* get_hosts_in_group(g), and a second call with identical arguments
\* leaves the state that the first call left.
C6_AddHostIdempotent ==
    [][(last'.op = "add_host" /\ Truthy(last'.group)) =>
          /\ Occurrences(get_hosts_in_group(inventory', last'.group).value,
                         last'.host) = 1
          /\ (last = last' => inventory' = inventory)]_vars

\* the mapping that vars / group_vars are merged into
GroupVarsOf(inv, g) == IF HasField(inv, g, "vars") THEN inv[g]["vars"] ELSE EmptyDict
HostVarsOf(inv, h) ==
    IF HasField(inv, "_meta", "hostvars") /\ h \in DOMAIN inv["_meta"]["hostvars"]
    THEN inv["_meta"]["hostvars"][h] ELSE EmptyDict

\* m agrees with `first` overridden key by key by `second` on their keys
LastWriteWins(m, first, second) ==
    \A k \in DOMAIN first \cup DOMAIN second :
        k \in DOMAIN m /\ m[k] = DictUpdate(first, second)[k]

\* C7: add_group_vars(g, v1) followed by add_group_vars(g, v2) leaves g's
\* vars equal, on the keys of v1 and v2, to v1 overridden key by key by v2;
\* the same for the host variables merged by successive add_host /
\* add_host_to_group calls on one host.
C7_LastWriteWins ==
    [][/\ (/\ last.op = "add_group_vars" /\ last'.op = "add_group_vars"
           /\ last.group = last'.group)
          => LastWriteWins(GroupVarsOf(inventory', last'.group),
                           last.gvars, last'.gvars)
       /\ (/\ last.op \in {"add_host", "add_host_to_group"}
           /\ last'.op \in {"add_host", "add_host_to_group"}
           /\ last.host = last'.host)
          => LastWriteWins(HostVarsOf(inventory', last'.host),
                           last.hvars, last'.hvars)]_vars

\* C8: save_cache(store) followed by load_cache() returns a store with the
\* same structure: same keys, variables, hosts lists and children lists in
\* the same order.
C8_SnapshotRoundTrip ==
    [][(last.op = "save_cache" /\ last'.op = "load_cache") =>
          (~last'.raised /\ inventory' = inventory)]_vars

\* A store with hosts, variables and a child link has been saved and
\* loaded back.
C8_Witness ==
    /\ last.op = "load_cache"
    /\ nops = 3
    /\ Parses(cache)
    /\ inventory = json_load(cache.doc)
    /\ Entries(inventory, "g1", "hosts") = {"h1", "h2"}
    /\ HostVarsOf(inventory, "h1") = A1

Usable(inv) ==
    /\ HasField(inv, "_meta", "hostvars")
    /\ HasField(inv, "all", "children")
    /\ HasField(inv, "ungrouped", "hosts")

\* C10 as stated: a snapshot that is corrupt or partial (one that parses
\* but lacks _meta/hostvars, all/children or ungrouped included) is
\* replaced by a new empty store, so every store load_cache() returns
\* supports the queries and mutations.
C10_PartialSnapshotReplaced ==
    last.op = "load_cache" =>
        /\ Usable(inventory)
        /\ (cache.exists /\ (cache.truncated \/ ~Usable(json_load(cache.doc))))
           => inventory = NewInventory

\* C10 amended: only a snapshot whose text is not valid JSON is replaced by
\* a new empty store; one that parses is installed unvalidated, so the
\* store returned has exactly the top-level keys and record fields of the
\* snapshot, reserved entries present or not.
C10_ParsedSnapshotInstalledAsIs ==
    last.op = "load_cache" =>
        IF Parses(cache)
        THEN /\ DOMAIN inventory = DOMAIN cache.doc.v
             /\ \A k \in DOMAIN inventory :
                    DOMAIN inventory[k] = DOMAIN cache.doc.v[k].v
        ELSE inventory = NewInventory

\* A snapshot without the ungrouped record has been loaded as it is.
C10_Witness ==
    /\ last.op = "load_cache"
    /\ Parses(cache)
    /\ "ungrouped" \notin DOMAIN cache.doc.v
    /\ "ungrouped" \notin DOMAIN inventory

QueryOps == {"get_hosts", "get_groups", "get_child_groups",
             "get_hosts_in_group", "get_host", "get_group"}

\* names that are not in the store / in the store with nothing in them
UnknownHosts(inv) ==
    {h \in Hosts : ~(/\ HasField(inv, "_meta", "hostvars")
                     /\ h \in DOMAIN inv["_meta"]["hostvars"])}
EmptyHosts(inv) == {h \in Hosts : get_host(inv, h) = Result(TRUE, EmptyDict)}
UnknownGroups(inv) == Groups \ DOMAIN inv
GroupsWithEmpty(inv, field) ==
    {g \in Groups \cap DOMAIN inv : field \in DOMAIN inv[g] /\ inv[g][field] = << >>}

C14_AccessorsReadOnly ==
    [][last'.op \in QueryOps => (inventory' = inventory /\ cache' = cache)]_vars

\* get_host has been asked about an unknown host of a populated store.
C14_Witness ==
    /\ last.op = "get_host"
    /\ HasField(inventory, "_meta", "hostvars")
    /\ last.host \notin DOMAIN inventory["_meta"]["hostvars"]
    /\ DOMAIN inventory["_meta"]["hostvars"] # {}
    /\ "g1" \in DOMAIN inventory

\* a list without its repeats, each name where it first occurs
RECURSIVE FirstOccurrences(_)
FirstOccurrences(list) ==
    IF list = << >> THEN << >>
    ELSE AppendIfAbsent(FirstOccurrences(SubSeq(list, 1, Len(list) - 1)),
                        list[Len(list)])

\* C12: add_hosts(hosts, group, vars, group_vars) with a named group leaves
\* the group in the store carrying group_vars, also when hosts is empty;
\* on a new store get_host(h) == vars for every listed h, get_group(group)
\* == group_vars and get_hosts_in_group(group) is the listed hosts in their
\* order without repeats.
C12_AddHostsResult ==
    (last.op = "add_hosts" /\ Truthy(last.group)) =>
        /\ last.group \in DOMAIN inventory
        /\ \A k \in DOMAIN last.gvars :
               /\ k \in DOMAIN GroupVarsOf(inventory, last.group)
               /\ GroupVarsOf(inventory, last.group)[k] = last.gvars[k]
        /\ nops = 1 =>
               /\ \A i \in 1..Len(last.host) :
                      get_host(inventory, last.host[i]) = Result(TRUE, last.hvars)
               /\ get_group(inventory, last.group) = Result(TRUE, last.gvars)
               /\ get_hosts_in_group(inventory, last.group)
                      = Result(TRUE, FirstOccurrences(last.host))

\* a field of the store that may be missing
Field(inv, k, f) ==
    IF HasField(inv, k, f) THEN [present |-> TRUE, v |-> inv[k][f]]
    ELSE [present |-> FALSE, v |-> << >>]

\* C13: remove_group(G) leaves _meta.hostvars and the hosts list of every
\* other group, ungrouped included, unchanged.
C13_RemoveGroupKeepsHosts ==
    [][last'.op = "remove_group" =>
          /\ Field(inventory', "_meta", "hostvars") = Field(inventory, "_meta", "hostvars")
          /\ \A g \in (DOMAIN inventory \cup DOMAIN inventory') \ {last'.group} :
                 Field(inventory', g, "hosts") = Field(inventory, g, "hosts")]_vars

StoreOps == AddOps \cup {"remove_group", "remove_host"}

NoRepeats(list) == \A i, j \in 1..Len(list) : list[i] = list[j] => i = j

Before(list, x, y) == \E i, j \in 1..Len(list) : i < j /\ list[i] = x /\ list[j] = y

Names(list) == {list[i] : i \in 1..Len(list)}

\* the names kept from `old` are in `new` in the order they had, and the
\* names `new` has gained come after them
OrderKept(old, new) ==
    /\ \A x, y \in Names(old) \cap Names(new) : Before(old, x, y) => Before(new, x, y)
    /\ \A x \in Names(old) \cap Names(new), y \in Names(new) \ Names(old) :
           Before(new, x, y)

\* C16: no hosts list, no children list and not all.children holds a name
\* twice, and the names of a list are in the order of their first
\* insertion: an add or remove call keeps the order of the names it keeps
\* and puts new names last.
C16_ListsAreOrderedSets ==
    [][last'.op \in StoreOps =>
          \A k \in DOMAIN inventory', f \in {"hosts", "children"} :
              HasField(inventory', k, f) =>
                  /\ NoRepeats(inventory'[k][f])
                  /\ HasField(inventory, k, f) =>
                         OrderKept(inventory[k][f], inventory'[k][f])]_vars

\* the keys of a mapping field, none when it is missing
KeysOf(inv, k, f) == IF HasField(inv, k, f) THEN DOMAIN inv[k][f] ELSE {}

\* C17: an add_* call removes no host from _meta.hostvars, no group
\* record, no field, no all.children entry, no child link, no variable key
\* and no host from a hosts list, and add_host leaves the hosts list of
\* every group but its target as it was; only add_host_to_group with a
\* named group may take its host out of ungrouped.hosts, and out of no
\* other list.
C17_AddOpsRemoveNothing ==
    [][last'.op \in AddOps =>
          /\ DOMAIN inventory \subseteq DOMAIN inventory'
          /\ \A k \in DOMAIN inventory :
                 /\ DOMAIN inventory[k] \subseteq DOMAIN inventory'[k]
                 /\ KeysOf(inventory, k, "vars") \subseteq KeysOf(inventory', k, "vars")
                 /\ Entries(inventory, k, "children") \subseteq Entries(inventory', k, "children")
                 /\ Entries(inventory, k, "hosts")
                        \ (IF /\ last'.op = "add_host_to_group" /\ Truthy(last'.group)
                              /\ k = "ungrouped"
                           THEN {last'.host} ELSE {})
                    \subseteq Entries(inventory', k, "hosts")
                 /\ (/\ last'.op = "add_host"
                     /\ k # (IF Truthy(last'.group) THEN last'.group ELSE "ungrouped"))
                    => Field(inventory', k, "hosts") = Field(inventory, k, "hosts")
          /\ KeysOf(inventory, "_meta", "hostvars") \subseteq KeysOf(inventory', "_meta", "hostvars")
          /\ \A h \in KeysOf(inventory, "_meta", "hostvars") :
                 DOMAIN inventory["_meta"]["hostvars"][h]
                     \subseteq DOMAIN inventory'["_meta"]["hostvars"][h]]_vars

\* add_host(h, g1) has run on a host that is in ungrouped.hosts and the
\* host is in both lists.
C17_Witness ==
    /\ last.op = "add_host" /\ last.group = "g1" /\ ~last.raised
    /\ last.host \in Entries(inventory, "ungrouped", "hosts")
    /\ last.host \in Entries(inventory, "g1", "hosts")

\* C18: add_child_group(parent, child) leaves both groups in all.children
\* with full records, the child carrying group_vars, and child exactly once
\* in parent.children; it succeeds also when parent = child or when child
\* is an ancestor of parent.
C18_ChildLinked ==
    last.op = "add_child_group" =>
        /\ ~last.raised
        /\ \A g \in {last.group, last.child} :
               /\ g \in Entries(inventory, "all", "children")
               /\ FullRecord(inventory, g)
        /\ \A k \in DOMAIN last.gvars :
               /\ k \in DOMAIN GroupVarsOf(inventory, last.child)
               /\ GroupVarsOf(inventory, last.child)[k] = last.gvars[k]
        /\ HasField(inventory, last.group, "children")
        /\ Occurrences(inventory[last.group]["children"], last.child) = 1

\* C19: every host name in a group's hosts list is a key of
\* _meta.hostvars.
C19_NoDanglingHosts ==
    \A k \in DOMAIN inventory :
        \A h \in Entries(inventory, k, "hosts") :
            ~get_host(inventory, h).raised /\ get_host(inventory, h).known

\* C20: after every sequence of public operations the store contains _meta
\* with a hostvars mapping, all with a children list that contains
\* 'ungrouped', and an ungrouped record with hosts, vars and children.
C20_ReservedEntriesSurvive ==
    /\ HasField(inventory, "_meta", "hostvars")
    /\ HasField(inventory, "all", "children")
    /\ "ungrouped" \in Entries(inventory, "all", "children")
    /\ FullRecord(inventory, "ungrouped")

\* none of --list, --host, --group is on the command line
NoSelector(args) == ~args.list /\ args.host = None /\ args.group = None

\* C15: a driver run started with none of --list, --host, --group takes
\* two steps only, parse_args and the selector test that ends it with the
\* usage error, whatever --cache says: neither step touches the cache
\* file, main's store is never created or populated, generate_inventory
\* is not called, nothing is read, written, deleted or put out.
C15_UsageErrorBeforeStore ==
    [][(run'.n = run.n /\ NoSelector(run'.args)) =>
          /\ run.pc \in {"parse_args", "check"}
          /\ run'.pc = IF run.pc = "parse_args" THEN "check" ELSE "usage_error"
          /\ cache' = cache
          /\ inventory' = Unbound
          /\ run'.trace = << >>
          /\ run'.out = NoOutput]_vars

\* A run ended by the usage error although --cache off was given and a
\* cache file from an earlier run is there to delete.
C15_Witness ==
    /\ run.pc = "usage_error"
    /\ NoSelector(run.args)
    /\ run.args.cache = "off"
    /\ cache.exists

\* C21: once a --cache on run has completed, and until a --cache off run,
\* every step of a later --cache on run that has passed the selector test
\* leaves the cache file as it is; its cache step loads the file, calls
\* neither generate_inventory nor save_cache and holds the inventory the
\* first such run has put out from; its output step puts out from that
\* inventory and ends the run.
C21_CacheReused ==
    [][(/\ run'.n = run.n
        /\ run.args.cache = "on"
        /\ run.kept # NoneKept
        /\ run.pc \notin {"parse_args", "check"}) =>
          /\ cache' = cache
          /\ run.pc \in {"cache", "output"}
          /\ run.pc = "cache" =>
                /\ run'.pc = "output"
                /\ run'.trace = <<"load_cache", "read">>
                /\ inventory' = run.kept
          /\ run.pc = "output" =>
                /\ run'.pc = "done"
                /\ inventory = run.kept
                /\ run'.out.value = output_value(run.kept, run.args)]_vars

\* the events of a run that has built its store anew
FreshTraces == {<<"new", "generate_inventory">>,
                <<"delete", "new", "generate_inventory">>}

\* C22: delete_cache leaves no file and changes nothing when there is
\* none; every step of a --cache off run that has passed the selector
\* test leaves no cache file behind: its cache step deletes the file and
\* starts generate_inventory on a new store, its later steps do not touch
\* the file, and the run never loads or reads the old snapshot.
C22_CacheOffInvalidates ==
    [][/\ ~delete_cache(cache).exists
       /\ ~cache.exists => delete_cache(cache) = cache
       /\ (/\ run'.n = run.n
           /\ run.args.cache = "off"
           /\ run.pc \notin {"parse_args", "check"}) =>
             /\ ~cache'.exists
             /\ run'.trace \in FreshTraces
             /\ run.pc = "cache" =>
                   /\ cache' = delete_cache(cache)
                   /\ inventory' = NewInventory
                   /\ run'.pc = "generate_inventory"
             /\ run.pc # "cache" => cache' = cache
             /\ run'.pc = "done" =>
                   run'.out.value = output_value(inventory, run.args)]_vars

\* C23: parse never fails on an unassigned host name, and every compose,
\* groups and keyed_groups call made for a record is made under the host
\* name taken from that record.
C23_StepsUnderOwnName ==
    /\ plugin.pc # "failed"
    /\ \A k \in 1..Len(plugin.steps) :
           plugin.steps[k].taken_from = plugin.steps[k].record

====
